---- MODULE Spec2Model ----
(***************************************************************************)
(* A model of yt_summary.py: a Telegram bot that fetches the transcript of *)
(* a YouTube video, summarises it (remote model first, local model as the  *)
(* fallback), keeps one context string per conversation in chat_context    *)
(* and answers questions against that context.                             *)
(*                                                                         *)
(* Text is modelled as a sequence of one-character strings, so that the    *)
(* string functions of the program (strip, split, join, the regular        *)
(* expression of get_video_id, escape_markdown) are computed character by  *)
(* character.  A few non-ASCII characters of the replies (emoji, ellipsis) *)
(* and the backtick are single elements written "{name}".                  *)
(***************************************************************************)
EXTENDS Integers, Sequences, FiniteSets, TLC

VARIABLES
    chat_context,   \* the dict chat_context: conversation id -> context text
    files,          \* the transcript files on disk: file name -> content
    tasks,          \* one handler coroutine per delivered message, in arrival order
    arrived,        \* number of messages delivered so far
    call            \* a direct call of one helper function: its argument and result

vars == <<chat_context, files, tasks, arrived, call>>

-----------------------------------------------------------------------------
(* Bounds of the model *)

\* number of messages delivered in one behaviour of the bot
MaxMsgs == 2
\* number of messages delivered in one behaviour in which messages are handled one by one
MaxSeqMsgs == 3
\* length of the texts enumerated as arguments of escape_markdown
MaxStrLen == 3
\* number of entries of the transcripts enumerated as arguments of fetch_transcript
MaxEntries == 3

(* Constants of the program *)

\* handle_video keeps lines[:3000] as the context
CONTEXT_LINES == 3000
\* fetch_transcript drops entries longer than 7 seconds
MAX_DURATION == 7
\* the default min_words of fetch_transcript
MIN_WORDS == 2
\* get_video_id captures {11} characters
ID_LEN == 11
\* summarize_fallback returns texts under 50 words unchanged
SHORT_WORDS == 50
\* summarize_fallback summarises chunks of 900 words
CHUNK_WORDS == 900

-----------------------------------------------------------------------------
(* Python's string functions, on sequences of characters *)

Min(a, b) == IF a <= b THEN a ELSE b

\* the characters str.strip() and str.split() treat as whitespace
Whitespace == {" ", "\n", "\t"}

RECURSIVE lstrip(_)
lstrip(s) ==
    IF s # <<>> /\ Head(s) \in Whitespace THEN lstrip(Tail(s)) ELSE s

RECURSIVE rstrip(_)
rstrip(s) ==
    IF s # <<>> /\ s[Len(s)] \in Whitespace
    THEN rstrip(SubSeq(s, 1, Len(s) - 1))
    ELSE s

\* str.strip()
strip(s) == rstrip(lstrip(s))

\* the positions at which a word of s.split() starts: a non-whitespace character that
\* is the first of the text or follows a whitespace character
word_starts(s) ==
    {i \in 1..Len(s) : s[i] \notin Whitespace /\ (i = 1 \/ s[i - 1] \in Whitespace)}

\* len(s.split()): the number of maximal runs of non-whitespace characters
split_len(s) == Cardinality(word_starts(s))

\* sep.join(parts)
RECURSIVE join(_, _)
join(sep, parts) ==
    IF parts = <<>> THEN <<>>
    ELSE IF Len(parts) = 1 THEN parts[1]
    ELSE parts[1] \o sep \o join(sep, Tail(parts))

\* seq[:n]
take(s, n) == SubSeq(s, 1, Min(n, Len(s)))

\* seq[n:]
drop(s, n) == SubSeq(s, n + 1, Len(s))

\* sub in s
contains(s, sub) ==
    \E i \in 1..(Len(s) - Len(sub) + 1) : SubSeq(s, i, i + Len(sub) - 1) = sub

\* s.startswith(prefix)
startswith(s, prefix) ==
    Len(s) >= Len(prefix) /\ SubSeq(s, 1, Len(prefix)) = prefix

-----------------------------------------------------------------------------
(* escape_markdown *)

\* escape_chars had the literal not been a raw string: "\\" is then one backslash, which
\* escapes nothing, and the backslash is not in the set
escape_chars_not_raw ==
    <<"_","*","[","]","(",")","~","{backtick}",">","#","+","-","=","|","{","}",".","!">>

\* escape_chars: the characters of the raw string literal of line 45, which ends in
\* two backslashes; "{backtick}" is the backtick character
escape_chars ==
    <<"_","*","[","]","(",")","~","{backtick}",">","#","+","-","=","|","{","}",".","!","\\","\\">>

\* c in escape_chars
in_escape_chars(c) == \E i \in 1..Len(escape_chars) : escape_chars[i] = c

\* "".join(f"\\{c}" if c in escape_chars else c for c in text)
RECURSIVE escape_markdown(_)
escape_markdown(text) ==
    IF text = <<>> THEN <<>>
    ELSE (IF in_escape_chars(Head(text)) THEN <<"\\", Head(text)>> ELSE <<Head(text)>>)
         \o escape_markdown(Tail(text))

-----------------------------------------------------------------------------
(* get_video_id *)

\* the character class [0-9A-Za-z_-]
IdChars ==
    {"0","1","2","3","4","5","6","7","8","9",
     "A","B","C","D","E","F","G","H","I","J","K","L","M",
     "N","O","P","Q","R","S","T","U","V","W","X","Y","Z",
     "a","b","c","d","e","f","g","h","i","j","k","l","m",
     "n","o","p","q","r","s","t","u","v","w","x","y","z",
     "_","-"}

\* where the group ([0-9A-Za-z_-]{11}) starts when (?:v=|\/) matches at i; 0 when it does not
group_start(url, i) ==
    IF i + 1 <= Len(url) /\ url[i] = "v" /\ url[i + 1] = "=" THEN i + 2
    ELSE IF url[i] = "/" THEN i + 1
    ELSE 0

\* (?:\?|\&|$) at position p: "?" or "&", the end of the string, or a final newline
terminator_at(url, p) ==
    \/ p = Len(url) + 1
    \/ p <= Len(url) /\ url[p] \in {"?", "&"}
    \/ p = Len(url) /\ url[p] = "\n"

\* the pattern (?:v=|\/)([0-9A-Za-z_-]{11})(?:\?|\&|$) matches starting at i
match_at(url, i) ==
    LET g == group_start(url, i)
    IN  /\ g # 0
        /\ g + ID_LEN - 1 <= Len(url)
        /\ \A k \in g..(g + ID_LEN - 1) : url[k] \in IdChars
        /\ terminator_at(url, g + ID_LEN)

\* re.search: the leftmost position at which the pattern matches; 0 when there is none
re_search(url) ==
    LET hits == {i \in 1..Len(url) : match_at(url, i)}
    IN  IF hits = {} THEN 0
        ELSE CHOOSE i \in hits : \A j \in hits : i <= j

\* str(e) of the ValueError that get_video_id raises
InvalidUrlMessage ==
    <<"I","n","v","a","l","i","d"," ","Y","o","u","T","u","b","e"," ","U","R","L">>

\* get_video_id: match.group(1), or ValueError("Invalid YouTube URL")
get_video_id(url) ==
    LET i == re_search(url)
        g == group_start(url, i)
    IN  IF i = 0
        THEN [ok |-> FALSE, val |-> InvalidUrlMessage]
        ELSE [ok |-> TRUE, val |-> SubSeq(url, g, g + ID_LEN - 1)]

-----------------------------------------------------------------------------
(* fetch_transcript, on the entries the transcript provider returned *)

\* keep_entry with the duration compared by < instead of <=
keep_entry_strict(e, skip_silences, min_words) ==
    /\ strip(e.text) # <<>>
    /\ \/ ~skip_silences
       \/ split_len(e.text) >= min_words /\ e.duration < MAX_DURATION

\* the condition of the list comprehension for one entry e
keep_entry(e, skip_silences, min_words) ==
    /\ strip(e.text) # <<>>
    /\ \/ ~skip_silences
       \/ split_len(e.text) >= min_words /\ e.duration <= MAX_DURATION

\* lines = [e['text'].strip() for e in transcript if ...]
RECURSIVE fetch_transcript(_, _, _)
fetch_transcript(transcript, skip_silences, min_words) ==
    IF transcript = <<>> THEN <<>>
    ELSE (IF keep_entry(Head(transcript), skip_silences, min_words)
          THEN <<strip(Head(transcript).text)>>
          ELSE <<>>)
         \o fetch_transcript(Tail(transcript), skip_silences, min_words)

-----------------------------------------------------------------------------
(* Dictionaries (chat_context, the files on disk) *)

EmptyDict == [k \in {} |-> <<>>]

\* d[k] = v
dict_set(d, k, v) == [x \in (DOMAIN d) \cup {k} |-> IF x = k THEN v ELSE d[x]]

\* d.get(k): the value, or None
dict_get(d, k) ==
    IF k \in DOMAIN d THEN [none |-> FALSE, val |-> d[k]] ELSE [none |-> TRUE, val |-> <<>>]

-----------------------------------------------------------------------------
(* The messages, and what the outside world may answer *)

\* the conversation ids (msg.chat.id) of the inbound messages
Chats == {1, 2}

TextStart == <<"/","s","t","a","r","t">>
TextLink == <<"h","t","t","p","s",":","/","/","y","o","u","t","u",".","b","e","/","d","Q","w","4","w","9","W","g","X","c","Q">>
TextTLink == <<"/","t"," ","h","t","t","p","s",":","/","/","y","o","u","t","u",".","b","e","/","9","b","Z","k","p","7","q","1","9","f","0">>
TextTBare == <<"/","t"," ","v","=","d","Q","w","4","w","9","W","g","X","c","Q">>
TextTEmpty == <<"/","t"," "," ">>
TextTBad == <<"/","t"," ","n","o","p","e">>
TextBadLink == <<"s","e","e"," ","y","o","u","t","u","b","e",".","c","o","m">>
TextQuestion == <<"w","h","a","t","?">>

\* the texts (msg.text) of the inbound messages
Texts ==
    {TextStart, TextLink, TextTLink, TextTBare, TextTEmpty, TextTBad, TextBadLink,
     TextQuestion}

\* a transcript whose entries are all filtered out
TranscriptSilent ==
    << [text |-> <<"m","u","s","i","c">>, duration |-> 2],
       [text |-> <<" "," ">>, duration |-> 1] >>

\* a transcript of 50 words in the lines that are kept
TranscriptTalk ==
    << [text |-> <<" ","a"," ","b"," ","c"," ","d"," ","e"," ","f"," ","g"," ","h"," ","i"," ","j">>, duration |-> 7],
       [text |-> <<"u","h">>, duration |-> 1],
       [text |-> <<"a"," ","b"," ","c"," ","d"," ","e"," ","f"," ","g"," ","h"," ","i"," ","j"," ">>, duration |-> 3],
       [text |-> <<"l","o","n","g"," ","p","a","u","s","e"," ","h","e","r","e">>, duration |-> 8],
       [text |-> <<"a"," ","b"," ","c"," ","d"," ","e"," ","f"," ","g"," ","h"," ","i"," ","j">>, duration |-> 5],
       [text |-> <<"a"," ","b"," ","c"," ","d"," ","e"," ","f"," ","g"," ","h"," ","i"," ","j">>, duration |-> 5],
       [text |-> <<"a"," ","b"," ","c"," ","d"," ","e"," ","f"," ","g"," ","h"," ","i"," ","j">>, duration |-> 5] >>

\* what YouTubeTranscriptApi.get_transcript may return
Transcripts == {TranscriptSilent, TranscriptTalk}

\* the outcomes of YouTubeTranscriptApi.get_transcript: a transcript, TranscriptsDisabled,
\* NoTranscriptFound, or another exception
ProviderOutcomes ==
    [kind : {"ok"}, val : Transcripts]
    \cup {[kind |-> "disabled", val |-> <<>>],
          [kind |-> "notfound", val |-> <<>>],
          [kind |-> "error", val |-> <<"n","o"," ","n","e","t","w","o","r","k",".">>]}

\* the outcomes of open(filename, "w"): the file is written, or OSError
WriteOutcomes ==
    {[kind |-> "ok", val |-> <<>>], [kind |-> "error", val |-> <<"d","i","s","k"," ","f","u","l","l">>]}

\* the outcomes of openai.ChatCompletion.acreate under asyncio.wait_for(timeout=30): the
\* content of the response, asyncio.TimeoutError, an openai.OpenAIError, another exception
RemoteOutcomes ==
    {[kind |-> "ok", val |-> <<" ","Q","&","A"," ","(","9","0","%",")","."," ">>],
     [kind |-> "timeout", val |-> <<>>],
     [kind |-> "error", val |-> <<"a","p","i"," ","d","o","w","n">>],
     [kind |-> "other", val |-> <<"b","o","o","m","!">>]}

\* the outcomes of one call of a local pipeline (summarizer_fallback, qa_fallback)
LocalOutcomes ==
    {[kind |-> "ok", val |-> <<"s","h","o","r","t"," ","s","u","m",".">>],
     [kind |-> "error", val |-> <<"m","o","d","e","l"," ","f","a","i","l","e","d">>]}

-----------------------------------------------------------------------------
(* The replies *)

Plain == "plain"
MarkdownV2 == "MarkdownV2"

\* msg.answer(text) / msg.answer(text, parse_mode=...); dyn is the text that was inserted
reply(kind, text, parse_mode, dyn) ==
    [kind |-> kind, text |-> text, parse_mode |-> parse_mode, dyn |-> dyn,
     file |-> <<>>, content |-> <<>>]

GreetingText == <<"H","i","!"," ","S","e","n","d"," ","a"," ","Y","o","u","T","u","b","e"," ","l","i","n","k"," ","t","o"," ","s","u","m","m","a","r","i","z","e"," ","a","n","d"," ","i","n","t","e","r","a","c","t"," ","w","i","t","h",".","\n","\n","U","s","e"," ","/","t"," ","<","l","i","n","k",">"," ","t","o"," ","g","e","t"," ","f","u","l","l"," ","t","r","a","n","s","c","r","i","p","t"," ","a","s"," ","a"," ",".","t","x","t"," ","f","i","l","e",".">>
StatusVideoText == <<"{hourglass}"," ","F","e","t","c","h","i","n","g"," ","a","n","d"," ","s","u","m","m","a","r","i","z","i","n","g","{ellipsis}">>
StatusTranscriptText == <<"{hourglass}"," ","F","e","t","c","h","i","n","g"," ","t","r","a","n","s","c","r","i","p","t","{ellipsis}">>
SummaryPrefix == <<"{page}"," ","S","u","m","m","a","r","y",":","\n">>
DocumentCaption == <<"{page}"," ","F","u","l","l"," ","t","r","a","n","s","c","r","i","p","t"," ","a","s"," ","t","e","x","t"," ","f","i","l","e">>
PromptText == <<"{speech}"," ","N","o","w"," ","a","s","k"," ","m","e"," ","q","u","e","s","t","i","o","n","s"," ","a","b","o","u","t"," ","t","h","e"," ","v","i","d","e","o","!">>
NoTranscriptText == <<"{cross}"," ","T","h","i","s"," ","v","i","d","e","o"," ","h","a","s"," ","n","o"," ","t","r","a","n","s","c","r","i","p","t"," ","a","v","a","i","l","a","b","l","e",".">>
ErrorPrefix == <<"{cross}"," ","E","r","r","o","r",":"," ">>
UsageText == <<"{cross}"," ","P","l","e","a","s","e"," ","p","r","o","v","i","d","e"," ","a"," ","Y","o","u","T","u","b","e"," ","l","i","n","k"," ","a","f","t","e","r"," ","/","t">>
NeedLinkText == <<"S","e","n","d"," ","a"," ","Y","o","u","T","u","b","e"," ","l","i","n","k"," ","f","i","r","s","t","!">>
AnswerPrefix == <<"*","A",":","*"," ">>
CouldntAnswerPrefix == <<"{cross}"," ","C","o","u","l","d","n","'","t"," ","a","n","s","w","e","r",":"," ">>

\* line 123
greeting_reply == reply("greeting", GreetingText, Plain, <<>>)
\* line 128
status_video_reply == reply("status", StatusVideoText, Plain, <<>>)
\* line 168
status_transcript_reply == reply("status", StatusTranscriptText, Plain, <<>>)
\* line 148
summary_reply(summary) ==
    reply("summary", SummaryPrefix \o escape_markdown(summary), MarkdownV2, summary)
\* lines 150-151 and 179-180: the file is read when the document is sent
document_reply(filename, content) ==
    [kind |-> "document", text |-> DocumentCaption, parse_mode |-> Plain, dyn |-> <<>>,
     file |-> filename, content |-> content]
\* line 153
prompt_reply == reply("prompt", PromptText, Plain, <<>>)
\* lines 156 and 183
no_transcript_reply == reply("no_transcript", NoTranscriptText, Plain, <<>>)
\* lines 159 and 186
error_reply(message) ==
    reply("error", ErrorPrefix \o escape_markdown(message), MarkdownV2, message)
\* line 166
usage_reply == reply("usage", UsageText, Plain, <<>>)
\* line 192
need_link_reply == reply("need_link", NeedLinkText, Plain, <<>>)
\* line 203
answer_reply(ans) ==
    reply("answer", AnswerPrefix \o escape_markdown(ans), MarkdownV2, ans)
\* line 206
couldnt_answer_reply(message) ==
    reply("error", CouldntAnswerPrefix \o escape_markdown(message), MarkdownV2, message)

-----------------------------------------------------------------------------
(* The two tiers of the answer engine *)

\* the number of chunks summarize_fallback hands to the local summarizer: none for a
\* text under 50 words, otherwise one per 900 words
fallback_calls(lines) ==
    LET n == split_len(join(<<" ">>, lines))
    IN  IF n < SHORT_WORDS THEN 0 ELSE (n + CHUNK_WORDS - 1) \div CHUNK_WORDS

\* summarize_fallback without lines 105-106: the local summarizer runs on every text
summarize_fallback_always(lines, outs) ==
    LET failures == {k \in 1..Len(outs) : outs[k].kind = "error"}
    IN  IF failures # {}
        THEN [ok |-> FALSE, val |-> outs[CHOOSE k \in failures : \A j \in failures : k <= j].val]
        ELSE [ok |-> TRUE, val |-> join(<<"\n">>, [k \in 1..Len(outs) |-> outs[k].val])]

\* summarize_fallback(lines); outs[k] is the outcome of the local summarizer on chunk k
summarize_fallback(lines, outs) ==
    LET text == join(<<" ">>, lines)
        failures == {k \in 1..Len(outs) : outs[k].kind = "error"}
    IN  IF split_len(text) < SHORT_WORDS THEN [ok |-> TRUE, val |-> text]
        ELSE IF failures # {}
        THEN [ok |-> FALSE, val |-> outs[CHOOSE k \in failures : \A j \in failures : k <= j].val]
        ELSE [ok |-> TRUE, val |-> join(<<"\n">>, [k \in 1..Len(outs) |-> outs[k].val])]

\* answer_fallback(context, question); out is the outcome of the local question answerer
answer_fallback(context, question, out) ==
    [ok |-> out.kind = "ok", val |-> out.val]

\* the body shared by summarize_openai and answer_openai, on the outcome r of the remote
\* call: the stripped content, or the exception that leaves the function; a timeout is
\* logged as a warning and raised as openai.OpenAIError(message)
remote_call(r, message) ==
    CASE r.kind = "ok" -> [raised |-> "no", val |-> strip(r.val), warnings |-> 0]
      [] r.kind = "timeout" -> [raised |-> "OpenAIError", val |-> message, warnings |-> 1]
      [] r.kind = "error" -> [raised |-> "OpenAIError", val |-> r.val, warnings |-> 0]
      [] OTHER -> [raised |-> "Exception", val |-> r.val, warnings |-> 0]

summarize_openai(r) == remote_call(r, <<"S","u","m","m","a","r","y"," ","r","e","q","u","e","s","t"," ","t","i","m","e","d"," ","o","u","t">>)

answer_openai(r) == remote_call(r, <<"Q","&","A"," ","r","e","q","u","e","s","t"," ","t","i","m","e","d"," ","o","u","t">>)

\* the try statement without its except clause: the error of the remote call leaves it
remote_without_fallback(rc, fb) ==
    [ok |-> rc.raised = "no", val |-> rc.val, warnings |-> rc.warnings,
     fallback |-> "none", fallback_val |-> <<>>]

\* the fallback called before the try statement, whatever the remote call does
fallback_then_remote(rc, fb) ==
    IF ~fb.ok
    THEN [ok |-> FALSE, val |-> fb.val, warnings |-> 0,
          fallback |-> "raised", fallback_val |-> fb.val]
    ELSE [ok |-> rc.raised # "Exception",
          val |-> IF rc.raised = "OpenAIError" THEN fb.val ELSE rc.val,
          warnings |-> rc.warnings + (IF rc.raised = "OpenAIError" THEN 1 ELSE 0),
          fallback |-> "ok", fallback_val |-> fb.val]

\* try: <remote call> except openai.OpenAIError: logger.warning(...); <fallback>
\* rc is the result of the remote call; fb is the result of the fallback, which is called
\* only in the except clause
remote_then_fallback(rc, fb) ==
    CASE rc.raised = "no" ->
           [ok |-> TRUE, val |-> rc.val, warnings |-> rc.warnings,
            fallback |-> "none", fallback_val |-> <<>>]
      [] rc.raised = "OpenAIError" ->
           [ok |-> fb.ok, val |-> fb.val, warnings |-> rc.warnings + 1,
            fallback |-> IF fb.ok THEN "ok" ELSE "raised", fallback_val |-> fb.val]
      [] OTHER ->
           [ok |-> FALSE, val |-> rc.val, warnings |-> rc.warnings,
            fallback |-> "none", fallback_val |-> <<>>]

-----------------------------------------------------------------------------
(* The handler coroutines *)

\* a message that was not delivered yet
NoTask ==
    [chat |-> 0, text |-> <<>>, handler |-> "none", pc |-> "none",
     vid |-> <<>>, lines |-> <<>>, context_text |-> <<>>, summary |-> <<>>,
     replies |-> <<>>, warnings |-> 0,
     remote |-> "none", fallback |-> "none", fallback_val |-> <<>>,
     provider |-> "none", write |-> "none",
     failed |-> "none", stored |-> FALSE, before |-> EmptyDict]

\* a handler that returned: its locals are gone
Gone == [NoTask EXCEPT !.pc = "gone"]

alive(t) == t.pc \notin {"none", "gone"}

\* the messages of one behaviour, in their order of arrival
TaskIds == 1..(IF MaxMsgs > MaxSeqMsgs THEN MaxMsgs ELSE MaxSeqMsgs)

\* the router: the first handler, in the order of registration, whose filter accepts the text
dispatch(text) ==
    IF text = TextStart THEN "cmd_start"
    ELSE IF contains(text, <<"y","o","u","t","u","b","e",".","c","o","m">>) \/ contains(text, <<"y","o","u","t","u",".","b","e">>) THEN "handle_video"
    ELSE IF startswith(text, <<"/","t"," ">>) THEN "cmd_transcript"
    ELSE "handle_question"

\* f"transcript_{vid}.txt"
filename_of(vid) == <<"t","r","a","n","s","c","r","i","p","t","_">> \o vid \o <<".","t","x","t">>

\* await msg.answer(...): the reply is sent and the handler is suspended at pc
send(t, r, pc) == [t EXCEPT !.replies = Append(@, r), !.pc = pc]

\* an except clause that only logs: no reply is sent
fail_silently(t, kind, r) == [t EXCEPT !.failed = kind, !.pc = "ret"]

\* an except clause of a handler: the reply of the clause is the last thing it sends
fail(t, kind, r) == [send(t, r, "ret") EXCEPT !.failed = kind]

\* cmd_start
cmd_start(t) == send(t, greeting_reply, "ret")

\* handle_video without line 128: no status reply
handle_video_begin_silent(t) == [t EXCEPT !.pc = "v_status"]

\* handle_video up to its first await
handle_video_begin(t) == send(t, status_video_reply, "v_status")

\* cmd_transcript up to its first await
cmd_transcript_begin(t) ==
    LET url == strip(drop(t.text, 3))
    IN  IF url = <<>> THEN send(t, usage_reply, "ret")
        ELSE send(t, status_transcript_reply, "t_status")

\* handle_question up to its first await: ctx = chat_context.get(msg.chat.id); if not ctx: ...
handle_question_begin(t, cc) ==
    LET ctx == dict_get(cc, t.chat)
    IN  IF ctx.none \/ ctx.val = <<>> THEN send(t, need_link_reply, "ret")
        ELSE [t EXCEPT !.context_text = ctx.val, !.pc = "q_typing"]

\* chat_context = {msg.chat.id: context_text}: the contexts of the other conversations
\* are dropped
store_context_alone(cc, chat, context_text) == dict_set(EmptyDict, chat, context_text)

\* chat_context.setdefault(msg.chat.id, context_text): an earlier context is kept
store_context_once(cc, chat, context_text) ==
    IF chat \in DOMAIN cc THEN cc ELSE dict_set(cc, chat, context_text)

\* chat_context[msg.chat.id] = context_text
store_context(cc, chat, context_text) == dict_set(cc, chat, context_text)

\* a new message is taken up: its handler is chosen and runs up to its first await
\* (conversation ids are opaque, so the first message is taken to come from conversation 1)
Take(c, text) ==
    /\ arrived = 0 => c = 1
    /\ LET i == arrived + 1
           h == dispatch(text)
           t == [NoTask EXCEPT !.chat = c, !.text = text, !.handler = h,
                               !.before = chat_context]
           started == CASE h = "cmd_start" -> cmd_start(t)
                        [] h = "handle_video" -> handle_video_begin(t)
                        [] h = "cmd_transcript" -> cmd_transcript_begin(t)
                        [] OTHER -> handle_question_begin(t, chat_context)
       IN  tasks' = [tasks EXCEPT ![i] = started]
    /\ arrived' = arrived + 1
    /\ UNCHANGED <<chat_context, files, call>>

\* the dispatcher starts the handler of each update as a task of its own: a message is
\* taken up whatever the handlers of the earlier messages are doing
Deliver(c, text) ==
    /\ arrived < MaxMsgs
    /\ Take(c, text)

\* a message is taken up when no handler is running
DeliverSeq(c, text) ==
    /\ arrived < MaxSeqMsgs
    /\ \A j \in TaskIds : ~alive(tasks[j])
    /\ Take(c, text)

\* fetch_and_save with TranscriptsDisabled and NoTranscriptFound taken as a transcript
\* without entries
fetch_and_save_lenient(t, url, p, w) ==
    LET id == get_video_id(url)
        lines == fetch_transcript(p.val, TRUE, MIN_WORDS)
    IN  IF ~id.ok
        THEN [failed |-> "invalid_url", reply |-> error_reply(id.val),
              provider |-> "none", write |-> "none"]
        ELSE IF p.kind = "error"
        THEN [failed |-> "fetch", reply |-> error_reply(p.val),
              provider |-> p.kind, write |-> "none"]
        ELSE IF w.kind = "error"
        THEN [failed |-> "write", reply |-> error_reply(w.val),
              provider |-> p.kind, write |-> w.kind]
        ELSE [failed |-> "none", vid |-> id.val, lines |-> lines,
              filename |-> filename_of(id.val), content |-> join(<<"\n">>, lines),
              provider |-> p.kind, write |-> w.kind]

\* lines 130-138 of handle_video and 170-177 of cmd_transcript on the text url: the video
\* id, the transcript lines and the transcript file; p and w are the outcomes of the
\* transcript provider and of opening the file, provider and write the outcomes of the
\* calls that were made
fetch_and_save(t, url, p, w) ==
    LET id == get_video_id(url)
        lines == fetch_transcript(p.val, TRUE, MIN_WORDS)
    IN  IF ~id.ok
        THEN [failed |-> "invalid_url", reply |-> error_reply(id.val),
              provider |-> "none", write |-> "none"]
        ELSE IF p.kind \in {"disabled", "notfound"}
        THEN [failed |-> p.kind, reply |-> no_transcript_reply,
              provider |-> p.kind, write |-> "none"]
        ELSE IF p.kind = "error"
        THEN [failed |-> "fetch", reply |-> error_reply(p.val),
              provider |-> p.kind, write |-> "none"]
        ELSE IF w.kind = "error"
        THEN [failed |-> "write", reply |-> error_reply(w.val),
              provider |-> p.kind, write |-> w.kind]
        ELSE [failed |-> "none", vid |-> id.val, lines |-> lines,
              filename |-> filename_of(id.val), content |-> join(<<"\n">>, lines),
              provider |-> p.kind, write |-> w.kind]

\* handle_video from the status reply to the await of summarize_openai
handle_video_fetch(i) ==
    /\ tasks[i].pc = "v_status"
    /\ \E p \in ProviderOutcomes, w \in WriteOutcomes :
         LET got == fetch_and_save(tasks[i], tasks[i].text, p, w)
             t == [tasks[i] EXCEPT !.provider = got.provider, !.write = got.write]
         IN  IF got.failed # "none"
             THEN /\ tasks' = [tasks EXCEPT ![i] = fail(t, got.failed, got.reply)]
                  /\ UNCHANGED files
             ELSE /\ tasks' = [tasks EXCEPT ![i] =
                        [t EXCEPT !.vid = got.vid, !.lines = got.lines,
                                  !.context_text = join(<<" ">>, take(got.lines, CONTEXT_LINES)),
                                  !.remote = "pending", !.pc = "v_remote"]]
                  /\ files' = dict_set(files, got.filename, got.content)
    /\ UNCHANGED <<chat_context, arrived, call>>

\* handle_video from the end of the remote call to the summary reply
handle_video_summarize(i) ==
    /\ tasks[i].pc = "v_remote"
    /\ \E r \in RemoteOutcomes, outs \in [1..fallback_calls(tasks[i].lines) -> LocalOutcomes] :
         LET t == tasks[i]
             s == remote_then_fallback(summarize_openai(r), summarize_fallback(t.lines, outs))
             u == [t EXCEPT !.remote = r.kind, !.fallback = s.fallback,
                            !.fallback_val = s.fallback_val,
                            !.warnings = @ + s.warnings]
         IN  IF s.ok
             THEN /\ chat_context' = store_context(chat_context, t.chat, t.context_text)
                  /\ tasks' = [tasks EXCEPT ![i] =
                        send([u EXCEPT !.summary = s.val, !.stored = TRUE],
                             summary_reply(s.val), "v_summary")]
             ELSE /\ tasks' = [tasks EXCEPT ![i] =
                        fail(u, IF s.fallback = "raised" THEN "fallback" ELSE "remote",
                             error_reply(s.val))]
                  /\ UNCHANGED chat_context
    /\ UNCHANGED <<files, arrived, call>>

\* handle_video: the transcript document
handle_video_document(i) ==
    /\ tasks[i].pc = "v_summary"
    /\ LET t == tasks[i]
           filename == filename_of(t.vid)
       IN  tasks' = [tasks EXCEPT ![i] =
                        send(t, document_reply(filename, files[filename]), "v_document")]
    /\ UNCHANGED <<chat_context, files, arrived, call>>

\* handle_video: the closing prompt
handle_video_prompt(i) ==
    /\ tasks[i].pc = "v_document"
    /\ tasks' = [tasks EXCEPT ![i] = send(tasks[i], prompt_reply, "ret")]
    /\ UNCHANGED <<chat_context, files, arrived, call>>

\* cmd_transcript from the status reply to the document or the error reply
cmd_transcript_fetch(i) ==
    /\ tasks[i].pc = "t_status"
    /\ \E p \in ProviderOutcomes, w \in WriteOutcomes :
         LET got == fetch_and_save(tasks[i], strip(drop(tasks[i].text, 3)), p, w)
             t == [tasks[i] EXCEPT !.provider = got.provider, !.write = got.write]
         IN  IF got.failed # "none"
             THEN /\ tasks' = [tasks EXCEPT ![i] = fail(t, got.failed, got.reply)]
                  /\ UNCHANGED files
             ELSE /\ tasks' = [tasks EXCEPT ![i] =
                        send([t EXCEPT !.vid = got.vid, !.lines = got.lines],
                             document_reply(got.filename, got.content), "ret")]
                  /\ files' = dict_set(files, got.filename, got.content)
    /\ UNCHANGED <<chat_context, arrived, call>>

\* handle_question from the typing action to the await of answer_openai
handle_question_ask(i) ==
    /\ tasks[i].pc = "q_typing"
    /\ tasks' = [tasks EXCEPT ![i] = [@ EXCEPT !.remote = "pending", !.pc = "q_remote"]]
    /\ UNCHANGED <<chat_context, files, arrived, call>>

\* handle_question from the end of the remote call to the answer or the error reply
handle_question_answer(i) ==
    /\ tasks[i].pc = "q_remote"
    /\ \E r \in RemoteOutcomes, out \in LocalOutcomes :
         LET t == tasks[i]
             a == remote_then_fallback(answer_openai(r),
                                       answer_fallback(t.context_text, strip(t.text), out))
             u == [t EXCEPT !.remote = r.kind, !.fallback = a.fallback,
                            !.fallback_val = a.fallback_val,
                            !.warnings = @ + a.warnings]
         IN  tasks' = [tasks EXCEPT ![i] =
                 IF a.ok
                 THEN send([u EXCEPT !.summary = a.val], answer_reply(a.val), "ret")
                 ELSE fail(u, IF a.fallback = "raised" THEN "fallback" ELSE "remote",
                           couldnt_answer_reply(a.val))]
    /\ UNCHANGED <<chat_context, files, arrived, call>>

\* the last await of a handler ends and the handler returns
Return(i) ==
    /\ tasks[i].pc = "ret"
    /\ tasks' = [tasks EXCEPT ![i] = Gone]
    /\ UNCHANGED <<chat_context, files, arrived, call>>

-----------------------------------------------------------------------------
(* The bot: messages arrive at any time and the handlers interleave at their awaits *)

NoCall == [fn |-> "none", arg |-> <<>>, ret |-> <<>>, done |-> FALSE]

Init ==
    /\ chat_context = EmptyDict
    /\ files = EmptyDict
    /\ tasks = [j \in TaskIds |-> NoTask]
    /\ arrived = 0
    /\ call = NoCall

Next ==
    \/ \E c \in Chats, text \in Texts : Deliver(c, text)
    \/ \E i \in TaskIds : handle_video_fetch(i)
    \/ \E i \in TaskIds : handle_video_summarize(i)
    \/ \E i \in TaskIds : handle_video_document(i)
    \/ \E i \in TaskIds : handle_video_prompt(i)
    \/ \E i \in TaskIds : cmd_transcript_fetch(i)
    \/ \E i \in TaskIds : handle_question_ask(i)
    \/ \E i \in TaskIds : handle_question_answer(i)
    \/ \E i \in TaskIds : Return(i)

Spec == Init /\ [][Next]_vars

\* the bot when every message arrives after the handler of the previous one has returned
NextSeq ==
    \/ \E c \in Chats, text \in Texts : DeliverSeq(c, text)
    \/ \E i \in TaskIds : handle_video_fetch(i)
    \/ \E i \in TaskIds : handle_video_summarize(i)
    \/ \E i \in TaskIds : handle_video_document(i)
    \/ \E i \in TaskIds : handle_video_prompt(i)
    \/ \E i \in TaskIds : cmd_transcript_fetch(i)
    \/ \E i \in TaskIds : handle_question_ask(i)
    \/ \E i \in TaskIds : handle_question_answer(i)
    \/ \E i \in TaskIds : Return(i)

SpecSeq == Init /\ [][NextSeq]_vars

\* the steps of the handler of message i
HandlerStep(i) ==
    \/ handle_video_fetch(i)
    \/ handle_video_summarize(i)
    \/ handle_video_document(i)
    \/ handle_video_prompt(i)
    \/ cmd_transcript_fetch(i)
    \/ handle_question_ask(i)
    \/ handle_question_answer(i)
    \/ Return(i)

-----------------------------------------------------------------------------
(* Direct calls of the helper functions, on enumerated arguments *)

RECURSIVE SeqsUpTo(_, _)
\* the sequences over S of length at most n
SeqsUpTo(S, n) ==
    IF n = 0 THEN {<<>>}
    ELSE LET shorter == SeqsUpTo(S, n - 1)
         IN  shorter \cup {Append(s, x) : s \in shorter, x \in S}

\* the characters of the texts escape_markdown is called on: the characters MarkdownV2
\* reserves, and some it does not
EscapeAlphabet ==
    {"_","*","[","]","(",")","~","{backtick}",">","#","+","-","=","|","{","}",".","!","\\",
     "a", "&", " "}

\* the reply text of the scenario of section 8 of the specification
ScenarioText == <<"Q","&","A"," ","(","9","0","%",")",".">>

EscapeCalls ==
    {[fn |-> "escape_markdown", arg |-> s, ret |-> <<>>, done |-> FALSE] :
        s \in SeqsUpTo(EscapeAlphabet, MaxStrLen) \cup {ScenarioText}}

\* the entries of the transcripts fetch_transcript is called on
EntryTexts == {<<>>, <<" "," ">>, <<" ","a"," ">>, <<"a"," "," ","b">>, <<"a"," ","b","\n","c"," ">>}
Entries == [text : EntryTexts, duration : {MAX_DURATION, MAX_DURATION + 1}]

FetchCalls ==
    {[fn |-> "fetch_transcript", arg |-> [transcript |-> tr, skip_silences |-> sk, min_words |-> mw],
      ret |-> <<>>, done |-> FALSE] :
        tr \in SeqsUpTo(Entries, MaxEntries), sk \in BOOLEAN, mw \in 1..3}

\* what stands before the video id in a URL of a form the program documents
UrlHeads ==
    {<<"h","t","t","p","s",":","/","/","y","o","u","t","u",".","b","e","/">>,
     <<"h","t","t","p","s",":","/","/","w","w","w",".","y","o","u","t","u","b","e",".","c","o","m","/","w","a","t","c","h","?","v","=">>,
     <<"h","t","t","p","s",":","/","/","w","w","w",".","y","o","u","t","u","b","e",".","c","o","m","/","w","a","t","c","h","?","f","e","a","t","u","r","e","=","s","h","a","r","e","&","v","=">>,
     <<"h","t","t","p","s",":","/","/","w","w","w",".","y","o","u","t","u","b","e",".","c","o","m","/","e","m","b","e","d","/">>,
     <<"h","t","t","p","s",":","/","/","w","w","w",".","y","o","u","t","u","b","e",".","c","o","m","/","v","/">>,
     <<"w","a","t","c","h"," ","t","h","i","s",":"," ","h","t","t","p","s",":","/","/","y","o","u","t","u",".","b","e","/">>}

VideoIds == {<<"d","Q","w","4","w","9","W","g","X","c","Q">>, <<"9","b","Z","k","p","7","q","1","9","f","0">>, <<"a","-","b","_","c","-","d","_","e","-","f">>}

\* what may follow the video id: nothing, query parameters, a fragment, message text
UrlTails == {<<>>, <<"?","t","=","1","0">>, <<"&","t","=","1","0">>, <<"#","t","=","1","0">>, <<" ","i","s"," ","g","r","e","a","t">>, <<"\n">>}

\* texts that hold no URL of a video
NotVideoUrls ==
    {<<>>, <<"h","e","l","l","o">>, <<"s","e","e"," ","y","o","u","t","u","b","e",".","c","o","m">>, <<"h","t","t","p","s",":","/","/","y","o","u","t","u",".","b","e","/">>, <<"h","t","t","p","s",":","/","/","y","o","u","t","u",".","b","e","/","d","Q","w","4","w","9","W","g","X","c">>,
     <<"h","t","t","p","s",":","/","/","y","o","u","t","u",".","b","e","/","d","Q","w","4","w","9","W","g","X","c","Q","1">>, <<"h","t","t","p","s",":","/","/","w","w","w",".","y","o","u","t","u","b","e",".","c","o","m","/","w","a","t","c","h","?","v","=","d","Q","w","4","w","9","W","g","*","c","Q">>,
     <<"v","=","d","Q","w","4","w","9","W","g","X","c","Q","1","&","t","=","1">>}

IdCalls ==
    {[fn |-> "get_video_id", arg |-> u, ret |-> <<>>, done |-> FALSE] :
        u \in {h \o v \o t : h \in UrlHeads, v \in VideoIds, t \in UrlTails} \cup NotVideoUrls}

\* a line of n one-letter words
Words(n) == [k \in 1..(2 * n - 1) |-> IF k % 2 = 1 THEN "w" ELSE " "]

\* the filtered lines handle_video summarizes: none, a few words, one word under and at
\* the 50 words of summarize_fallback, and one word over a chunk of 900
SummarizeLines ==
    {<<>>, <<<<"h","i"," ","t","h","e","r","e">>>>,
     <<Words(SHORT_WORDS - 25), Words(24)>>, <<Words(SHORT_WORDS - 25), Words(25)>>,
     <<Words(CHUNK_WORDS - 25), Words(26)>>}

SummarizeCalls ==
    {[fn |-> "summarize", arg |-> [lines |-> l, remote |-> r, local |-> outs],
      ret |-> <<>>, done |-> FALSE] :
        l \in SummarizeLines, r \in RemoteOutcomes,
        outs \in UNION {[1..n -> LocalOutcomes] : n \in 0..2}}

call_escape_markdown ==
    /\ call.fn = "escape_markdown" /\ ~call.done
    /\ call' = [call EXCEPT !.ret = escape_markdown(call.arg), !.done = TRUE]
    /\ UNCHANGED <<chat_context, files, tasks, arrived>>

call_fetch_transcript ==
    /\ call.fn = "fetch_transcript" /\ ~call.done
    /\ call' = [call EXCEPT
                  !.ret = fetch_transcript(call.arg.transcript, call.arg.skip_silences,
                                           call.arg.min_words),
                  !.done = TRUE]
    /\ UNCHANGED <<chat_context, files, tasks, arrived>>

call_get_video_id ==
    /\ call.fn = "get_video_id" /\ ~call.done
    /\ call' = [call EXCEPT !.ret = get_video_id(call.arg), !.done = TRUE]
    /\ UNCHANGED <<chat_context, files, tasks, arrived>>

\* lines 140-144 of handle_video: the summary of the lines, from the remote tier or from
\* summarize_fallback
call_summarize ==
    /\ call.fn = "summarize" /\ ~call.done
    /\ Len(call.arg.local) = fallback_calls(call.arg.lines)
    /\ call' = [call EXCEPT
                  !.ret = remote_then_fallback(
                              summarize_openai(call.arg.remote),
                              summarize_fallback(call.arg.lines, call.arg.local)),
                  !.done = TRUE]
    /\ UNCHANGED <<chat_context, files, tasks, arrived>>

InitCalls ==
    /\ chat_context = EmptyDict
    /\ files = EmptyDict
    /\ tasks = [j \in TaskIds |-> NoTask]
    /\ arrived = 0
    /\ \/ call \in EscapeCalls
       \/ call \in FetchCalls
       \/ call \in IdCalls
       \/ call \in {c \in SummarizeCalls : Len(c.arg.local) = fallback_calls(c.arg.lines)}

NextCalls ==
    \/ call_escape_markdown
    \/ call_fetch_transcript
    \/ call_get_video_id
    \/ call_summarize

\* each helper function called once on each of the enumerated arguments
SpecPure == InitCalls /\ [][NextCalls]_vars

\* the helper calls, and the bot handling its messages one by one
SpecReplies == (Init \/ InitCalls) /\ [][(call.fn = "none" /\ NextSeq) \/ NextCalls]_vars

-----------------------------------------------------------------------------
(* The claims *)

\* the last reply of a handler that has replied
LastReply(t) == t.replies[Len(t.replies)]

\* the kinds of the replies a handler has sent
ReplyKinds(t) == {t.replies[k].kind : k \in 1..Len(t.replies)}

\* the lines separated by single spaces, built from the last line backwards
RECURSIVE SpaceJoined(_)
SpaceJoined(lines) ==
    IF lines = <<>> THEN <<>>
    ELSE IF Len(lines) = 1 THEN lines[1]
    ELSE SpaceJoined(SubSeq(lines, 1, Len(lines) - 1)) \o <<" ">> \o lines[Len(lines)]

FirstLines(lines) == SubSeq(lines, 1, IF Len(lines) < 3000 THEN Len(lines) ELSE 3000)

\* C1: with the messages handled one after the other, once a video-link message has been
\* processed successfully the context stored for its conversation is exactly the space-join
\* of the first 3000 filtered lines of that video, whatever was stored for the
\* conversation before; the store holds one text per conversation id
C1_LaterLinkReplacesContext ==
    /\ \A c \in DOMAIN chat_context : c \in Chats
    /\ \A i \in TaskIds :
         LET t == tasks[i]
         IN  (t.handler = "handle_video" /\ t.stored) =>
                /\ t.chat \in DOMAIN chat_context
                /\ chat_context[t.chat] = SpaceJoined(FirstLines(t.lines))
                /\ \A c \in DOMAIN t.before : c # t.chat =>
                      c \in DOMAIN chat_context /\ chat_context[c] = t.before[c]

\* C1: a second link of a conversation has been processed to its end, and the non-empty
\* context of the first link has been replaced by a different one
C1_Witness ==
    \E i \in TaskIds :
        LET t == tasks[i]
        IN  /\ t.handler = "handle_video" /\ t.stored /\ t.pc = "ret"
            /\ t.chat \in DOMAIN t.before
            /\ t.before[t.chat] # <<>>
            /\ chat_context[t.chat] # t.before[t.chat]
            /\ chat_context[t.chat] = SpaceJoined(FirstLines(t.lines))

\* the text is neither /start, nor a /t command, nor a message with a YouTube link
PlainMessage(text) ==
    /\ text # <<"/","s","t","a","r","t">>
    /\ ~(Len(text) >= 3 /\ SubSeq(text, 1, 3) = <<"/","t"," ">>)
    /\ ~contains(text, <<"y","o","u","t","u","b","e",".","c","o","m">>)
    /\ ~contains(text, <<"y","o","u","t","u",".","b","e">>)

\* C2: a message that is no command and no link is a question to the answer engine, on
\* the stored context, when a context is stored for its conversation (an empty one
\* included); when none is stored its only reply is "Send a YouTube link first!" and
\* the engine is not invoked
C2_QuestionUsesStoredContext ==
    \A i \in TaskIds :
        LET t == tasks[i]
        IN  (alive(t) /\ PlainMessage(t.text)) =>
               IF t.chat \in DOMAIN t.before
               THEN /\ "need_link" \notin ReplyKinds(t)
                    /\ t.context_text = t.before[t.chat]
                    /\ t.pc = "ret" => t.remote # "none"
               ELSE /\ t.replies = <<need_link_reply>>
                    /\ t.remote = "none" /\ t.fallback = "none"

\* the handler the priority order /start, /t prefix, link, catch-all gives a text
PriorityHandler(text) ==
    IF text = <<"/","s","t","a","r","t">> THEN "cmd_start"
    ELSE IF Len(text) >= 3 /\ SubSeq(text, 1, 3) = <<"/","t"," ">> THEN "cmd_transcript"
    ELSE IF contains(text, <<"y","o","u","t","u","b","e",".","c","o","m">>) \/ contains(text, <<"y","o","u","t","u",".","b","e">>) THEN "handle_video"
    ELSE "handle_question"

RemoteFailed(t) == t.remote \in {"timeout", "error"}

\* the replies that report an error
ErrorKinds == {"error", "no_transcript"}

\* the reply that carries the result of the handler: the summary or the answer
ResultKind(t) == IF t.handler = "handle_video" THEN "summary" ELSE "answer"

\* C4, as stated: after a failure of the remote tier no error reply is sent, the local
\* fallback is invoked and its output is sent as the summary or the answer, and
\* handle_video stores the context
C4_RemoteFailureNeverAnError ==
    \A i \in TaskIds :
        LET t == tasks[i]
        IN  RemoteFailed(t) =>
               /\ "error" \notin ReplyKinds(t)
               /\ t.fallback = "ok"
               /\ \E k \in 1..Len(t.replies) :
                     t.replies[k].kind = ResultKind(t) /\ t.replies[k].dyn = t.fallback_val
               /\ t.handler = "handle_video" => t.stored

\* C4, amended: after a failure of the remote tier the local fallback is invoked and the
\* error of the remote tier is in no reply; when the fallback returns, its output is sent
\* as the summary or the answer, no error reply is sent and handle_video stores the
\* context; when the fallback raises, the last reply is an error reply with the message
\* of the fallback's exception and chat_context is left as it was
C4_RemoteFailureFallsBack ==
    \A i \in TaskIds :
        LET t == tasks[i]
        IN  RemoteFailed(t) =>
               /\ t.fallback \in {"ok", "raised"}
               /\ t.warnings >= 1
               /\ t.fallback = "ok" =>
                     /\ "error" \notin ReplyKinds(t)
                     /\ \E k \in 1..Len(t.replies) :
                           /\ t.replies[k].kind = ResultKind(t)
                           /\ t.replies[k].dyn = t.fallback_val
                     /\ t.handler = "handle_video" =>
                           t.stored /\ chat_context[t.chat] = t.context_text
               /\ t.fallback = "raised" =>
                     /\ t.pc = "ret"
                     /\ LastReply(t).kind = "error"
                     /\ LastReply(t).dyn = t.fallback_val
                     /\ ResultKind(t) \notin ReplyKinds(t)
                     /\ ~t.stored
                     /\ chat_context = t.before

\* C4: the remote summary timed out, the local summarizer ran and its output is the
\* summary reply of a handle_video that stored the context and came to its end
C4_Witness ==
    \E i \in TaskIds :
        LET t == tasks[i]
        IN  /\ t.handler = "handle_video" /\ t.pc = "ret"
            /\ t.remote = "timeout" /\ t.fallback = "ok"
            /\ t.fallback_val = <<"s","h","o","r","t"," ","s","u","m",".">>
            /\ t.stored
            /\ \E k \in 1..Len(t.replies) :
                  t.replies[k].kind = "summary" /\ t.replies[k].dyn = t.fallback_val

\* the handling of a video-link message failed on its url or on a missing transcript
NoVideoOrTranscript(t) ==
    /\ t.handler = "handle_video"
    /\ t.text = <<"s","e","e"," ","y","o","u","t","u","b","e",".","c","o","m">> \/ t.provider \in {"disabled", "notfound"}

\* C5: when a video-link message has no recognizable video id, or its transcripts are
\* disabled or not found, a reply reporting it is the last reply of the handler, and
\* chat_context is, for every conversation, what it was when the message arrived
C5_FailedLinkKeepsContext ==
    \A i \in TaskIds :
        LET t == tasks[i]
        IN  NoVideoOrTranscript(t) =>
               /\ ~t.stored
               /\ chat_context = t.before
               /\ t.pc \in {"v_status", "ret"}
               /\ t.pc = "ret" =>
                     /\ t.replies[1].kind = "status"
                     /\ Len(t.replies) = 2
                     /\ IF t.provider \in {"disabled", "notfound"}
                        THEN LastReply(t).kind = "no_transcript"
                        ELSE /\ LastReply(t).kind = "error"
                             /\ LastReply(t).dyn = <<"I","n","v","a","l","i","d"," ","Y","o","u","T","u","b","e"," ","U","R","L">>

\* C5: a link whose transcript was not found was handled to its end in a conversation
\* that has a non-empty context from an earlier link, and that context is still stored
C5_Witness ==
    \E i \in TaskIds :
        LET t == tasks[i]
        IN  /\ t.handler = "handle_video" /\ t.pc = "ret"
            /\ t.provider = "notfound"
            /\ LastReply(t).kind = "no_transcript"
            /\ t.chat \in DOMAIN t.before
            /\ t.before[t.chat] # <<>>
            /\ chat_context[t.chat] = t.before[t.chat]

\* the text has no video id, and the status reply of its handler has been sent
NoVideoId(t) ==
    /\ t.text \in {<<"s","e","e"," ","y","o","u","t","u","b","e",".","c","o","m">>, <<"/","t"," ","n","o","p","e">>}
    /\ t.pc \notin {"v_status", "t_status"}

\* one of the calls of the handler raised: the video id, the transcript, the file, the
\* remote call (with an error that is not of the remote service) or the local fallback
SomethingRaised(t) ==
    \/ NoVideoId(t)
    \/ t.provider \in {"disabled", "notfound", "error"}
    \/ t.write = "error"
    \/ t.remote = "other"
    \/ t.fallback = "raised"

\* how far a handler is from its start: every await of a handler is later than the one before
Rank(pc) ==
    CASE pc \in {"v_status", "t_status", "q_typing"} -> 1
      [] pc \in {"v_remote", "q_remote"} -> 2
      [] pc = "v_summary" -> 3
      [] pc = "v_document" -> 4
      [] pc = "ret" -> 5
      [] pc = "gone" -> 6
      [] OTHER -> 0

\* a call that raised ended the handler with an error reply as its last reply, nothing of
\* the success path of handle_video was sent after it, and a handler at its end has replied
FailureReplied(t) ==
    alive(t) =>
        /\ Rank(t.pc) \in 1..5
        /\ SomethingRaised(t) =>
              /\ t.pc = "ret"
              /\ LastReply(t).kind \in ErrorKinds
              /\ t.handler = "handle_video" =>
                    {"summary", "document", "prompt"} \cap ReplyKinds(t) = {}
        /\ t.pc = "ret" => Len(t.replies) >= 1

\* a step of a running handler brings it nearer to its return, and no step but the
\* handler's own changes what it has done
TowardsReturn(i) ==
    (alive(tasks[i]) /\ tasks[i]' # tasks[i]) =>
        /\ HandlerStep(i)
        /\ Rank(tasks[i]'.pc) > Rank(tasks[i].pc)
        /\ tasks[i]'.pc = "gone" <=> tasks[i].pc = "ret"

\* C6: whatever the outcome of the video id, the transcript, the file, the remote call
\* and the local fallback, a call that raises ends the handler with an error reply as its
\* last reply, a handler at its end has sent a reply, and every step of a handler brings
\* it nearer to its return, which it reaches with no exception left to escape
C6_EveryFailureReplied ==
    /\ [](\A i \in TaskIds : FailureReplied(tasks[i]))
    /\ [][\A i \in TaskIds : TowardsReturn(i)]_vars

\* C6: the remote summary failed, the local summarizer raised, and handle_video ended
\* with the error reply that carries the message of the local summarizer
C6_Witness ==
    \E i \in TaskIds :
        LET t == tasks[i]
        IN  /\ t.handler = "handle_video" /\ t.pc = "ret"
            /\ t.remote = "error" /\ t.fallback = "raised"
            /\ LastReply(t).kind = "error"
            /\ LastReply(t).dyn = <<"m","o","d","e","l"," ","f","a","i","l","e","d">>

\* C7: of two messages of one conversation, the later one has no effect (no reply, no
\* context stored) while the handler of the earlier one has effects to come, and after
\* two links the stored context is that of the later link
C7_ArrivalOrder ==
    \A i, j \in TaskIds :
        (i < j /\ alive(tasks[i]) /\ alive(tasks[j]) /\ tasks[i].chat = tasks[j].chat) =>
            /\ tasks[i].pc # "ret" => tasks[j].replies = <<>> /\ ~tasks[j].stored
            /\ (tasks[i].stored /\ tasks[j].stored) =>
                  chat_context[tasks[j].chat] = tasks[j].context_text

SetMin(S) == CHOOSE x \in S : \A y \in S : x <= y
SetMax(S) == CHOOSE x \in S : \A y \in S : x >= y

\* the positions of the non-whitespace characters of s
Inked(s) == {i \in 1..Len(s) : s[i] \notin Whitespace}

\* s from its first to its last non-whitespace character
Trimmed(s) == IF Inked(s) = {} THEN <<>> ELSE SubSeq(s, SetMin(Inked(s)), SetMax(Inked(s)))

\* the number of words of s: the non-whitespace characters that end the text or stand
\* before a whitespace character
WordCount(s) == Cardinality({i \in Inked(s) : i = Len(s) \/ s[i + 1] \in Whitespace})

\* the entry qualifies: non-empty trimmed text and, when silences are skipped, at least
\* min_words words and a duration of at most 7
Qualifies(e, skip_silences, min_words) ==
    /\ Trimmed(e.text) # <<>>
    /\ skip_silences => (WordCount(e.text) >= min_words /\ e.duration <= 7)

\* C8: fetch_transcript returns, in the provider's order, exactly the trimmed texts of
\* the entries with non-empty trimmed text and, when skip_silences is true, at least
\* min_words words and a duration of at most 7: no other entry contributes a line, and
\* no qualifying entry is dropped or reordered.
C8_FetchTranscriptFilters ==
    (call.fn = "fetch_transcript" /\ call.done) =>
        LET tr == call.arg.transcript
            kept == {i \in 1..Len(tr) :
                        Qualifies(tr[i], call.arg.skip_silences, call.arg.min_words)}
            rank(i) == Cardinality({j \in kept : j <= i})
        IN  /\ Len(call.ret) = Cardinality(kept)
            /\ \A i \in kept : call.ret[rank(i)] = Trimmed(tr[i].text)

\* C8 witness: with skip_silences and min_words = 2, a transcript of three entries, one
\* too long, one too short and one kept between them
C8_Witness ==
    /\ call.fn = "fetch_transcript" /\ call.done
    /\ call.arg.skip_silences /\ call.arg.min_words = 2
    /\ call.arg.transcript =
         << [text |-> <<"a"," "," ","b">>, duration |-> 8],
            [text |-> <<"a"," ","b","\n","c"," ">>, duration |-> 7],
            [text |-> <<" ","a"," ">>, duration |-> 7] >>
    /\ call.ret = << <<"a"," ","b","\n","c">> >>

\* the characters MarkdownV2 reserves
SpecialChars ==
    {"_","*","[","]","(",")","~","{backtick}",">","#","+","-","=","|","{","}",".","!","\\"}

\* out is text with one backslash inserted before each reserved character and nothing
\* else changed
IsEscapingOf(text, out) ==
    LET special == {i \in 1..Len(text) : text[i] \in SpecialChars}
        pos(i) == i + Cardinality({j \in special : j <= i})
    IN  /\ Len(out) = Len(text) + Cardinality(special)
        /\ \A i \in 1..Len(text) :
              /\ out[pos(i)] = text[i]
              /\ i \in special => out[pos(i) - 1] = "\\"

ScenarioEscaped == <<"Q","&","A"," ","\\","(","9","0","%","\\",")","\\",".">>

\* the static texts that open the replies sent in MarkdownV2 mode
MarkdownPrefixes == {SummaryPrefix, ErrorPrefix, AnswerPrefix, CouldntAnswerPrefix}

\* C9: escape_markdown inserts exactly one backslash before each reserved character and
\* changes nothing else ("Q&A (90%)." becomes "Q&A \(90%\)\."), and the dynamic text of
\* every reply sent in MarkdownV2 mode is escaped in this way.
C9_EscapeMarkdown ==
    /\ (call.fn = "escape_markdown" /\ call.done) =>
          /\ IsEscapingOf(call.arg, call.ret)
          /\ call.arg = ScenarioText => call.ret = ScenarioEscaped
    /\ \A i \in TaskIds : \A k \in 1..Len(tasks[i].replies) :
          LET r == tasks[i].replies[k]
          IN  r.parse_mode = MarkdownV2 =>
                \E prefix \in MarkdownPrefixes :
                    /\ startswith(r.text, prefix)
                    /\ IsEscapingOf(r.dyn, drop(r.text, Len(prefix)))

\* C9 witness: the summary "Q&A (90%)." was sent in MarkdownV2 mode
C9_Witness ==
    \E i \in TaskIds : \E k \in 1..Len(tasks[i].replies) :
        /\ tasks[i].replies[k].parse_mode = MarkdownV2
        /\ tasks[i].replies[k].dyn = ScenarioText
        /\ tasks[i].replies[k].text = SummaryPrefix \o ScenarioEscaped

\* the URL forms the claim recognises: v=<id>, youtu.be/<id>, /embed/<id>, /v/<id>
RecognizedHeads == UrlHeads

\* C10: for a URL of a recognised form, with or without query parameters, a fragment or
\* message text around it, get_video_id returns exactly the 11-character id; for a text
\* that holds no such URL it fails with the invalid-URL error.
C10_GetVideoId ==
    (call.fn = "get_video_id" /\ call.done) =>
        /\ \A h \in RecognizedHeads, v \in VideoIds, t \in UrlTails :
              call.arg = h \o v \o t => call.ret = [ok |-> TRUE, val |-> v]
        /\ call.arg \in NotVideoUrls => call.ret = [ok |-> FALSE, val |-> InvalidUrlMessage]

\* the local summarizer did not fail on any chunk of the call
LocalWorked(c) == \A k \in 1..Len(c.arg.local) : c.arg.local[k].kind = "ok"

\* C11: a summary is never empty: for every list of lines, the empty one included, the
\* summary from the remote tier or from the local fallback is a non-empty text, and it is
\* "Summary not available." when the fallback has no lines to summarize; so no summary
\* reply of handle_video carries an empty summary
C11_SummaryNeverEmpty ==
    /\ (call.fn = "summarize" /\ call.done /\ call.arg.remote.kind # "other"
            /\ LocalWorked(call)) =>
          /\ call.ret.ok
          /\ call.ret.val # <<>>
          /\ (call.ret.fallback = "ok" /\ call.arg.lines = <<>>) =>
                call.ret.val = <<"S","u","m","m","a","r","y"," ","n","o","t"," ","a","v","a","i","l","a","b","l","e",".">>
    /\ \A i \in TaskIds : \A k \in 1..Len(tasks[i].replies) :
          tasks[i].replies[k].kind = "summary" => tasks[i].replies[k].dyn # <<>>

\* the lines, joined by spaces, have fewer than 50 words
FewWords(lines) == WordCount(SpaceJoined(lines)) < 50

\* C12: the summary of lines whose joined text has fewer than 50 words is the joined text
\* itself, not the output of the remote model or of the local one; so the summary reply
\* of handle_video for such a transcript carries the space-join of its lines
C12_FewWordsSummaryIsText ==
    /\ (call.fn = "summarize" /\ call.done /\ call.arg.remote.kind # "other"
            /\ FewWords(call.arg.lines)) =>
          call.ret.ok /\ call.ret.val = SpaceJoined(call.arg.lines)
    /\ \A i \in TaskIds : \A k \in 1..Len(tasks[i].replies) :
          (tasks[i].replies[k].kind = "summary" /\ FewWords(tasks[i].lines)) =>
              tasks[i].replies[k].dyn = SpaceJoined(tasks[i].lines)

\* C12, amended: when the remote tier fails (timeout or error of the remote service), the
\* summary of lines whose joined text has fewer than 50 words is the joined text itself,
\* from the fallback; when the remote tier answers, the summary is its answer, trimmed
C12_FewWordsFallbackIsText ==
    /\ (call.fn = "summarize" /\ call.done /\ FewWords(call.arg.lines)) =>
          /\ call.arg.remote.kind \in {"timeout", "error"} =>
                /\ call.ret.ok /\ call.ret.fallback = "ok"
                /\ call.ret.val = SpaceJoined(call.arg.lines)
          /\ call.arg.remote.kind = "ok" =>
                /\ call.ret.ok /\ call.ret.fallback = "none"
                /\ call.ret.val = Trimmed(call.arg.remote.val)
    /\ \A i \in TaskIds : \A k \in 1..Len(tasks[i].replies) :
          (tasks[i].replies[k].kind = "summary" /\ FewWords(tasks[i].lines)) =>
              /\ RemoteFailed(tasks[i]) =>
                    /\ tasks[i].fallback = "ok"
                    /\ tasks[i].replies[k].dyn = SpaceJoined(tasks[i].lines)
              /\ ~RemoteFailed(tasks[i]) => tasks[i].remote = "ok"

\* C12: the remote summary timed out and the summary of lines of 49 words is their
\* space-join
C12_Witness ==
    /\ call.fn = "summarize" /\ call.done
    /\ call.arg.remote.kind = "timeout"
    /\ WordCount(SpaceJoined(call.arg.lines)) = 49
    /\ call.ret.ok
    /\ call.ret.val = SpaceJoined(call.arg.lines)

\* C13: when the remote summary times out and the local summarizer works, the summary is
\* the output of the local fallback, nothing is raised, and exactly one warning is logged
\* from the timeout to the call of the fallback
C13_TimeoutLoggedOnce ==
    /\ (call.fn = "summarize" /\ call.done /\ call.arg.remote.kind = "timeout"
            /\ LocalWorked(call)) =>
          /\ call.ret.ok /\ call.ret.fallback = "ok"
          /\ call.ret.val = call.ret.fallback_val
          /\ call.ret.warnings = 1
    /\ \A i \in TaskIds :
          LET t == tasks[i]
          IN  (t.handler = "handle_video" /\ t.remote = "timeout" /\ t.fallback = "ok") =>
                 /\ t.failed = "none"
                 /\ t.summary = t.fallback_val
                 /\ t.warnings = 1

\* the remote call of the handler has come to its end
RemoteOver(t) == t.remote \notin {"none", "pending"}

\* the local fallback was invoked only after the remote call of the same message failed
FallbackAfterFailure(t) ==
    alive(t) =>
        /\ t.fallback # "none" => RemoteFailed(t)
        /\ t.remote \in {"none", "pending"} => t.fallback = "none"
        /\ t.handler \in {"cmd_start", "cmd_transcript"} =>
              t.remote = "none" /\ t.fallback = "none"

\* the remote call of a message is started once, and once it is over neither tier is
\* called again: no retry of the remote call, no second run of the fallback
NoSecondCall(i) ==
    (alive(tasks[i]) /\ alive(tasks[i]')) =>
        /\ RemoteOver(tasks[i]) =>
              /\ tasks[i]'.remote = tasks[i].remote
              /\ tasks[i]'.fallback = tasks[i].fallback
              /\ tasks[i]'.fallback_val = tasks[i].fallback_val
              /\ tasks[i]'.warnings = tasks[i].warnings
        /\ tasks[i].remote = "pending" => tasks[i]'.remote # "none"
        /\ tasks[i].fallback # "none" => tasks[i]'.fallback = tasks[i].fallback

\* C14: for each message the remote tier is called at most once and the local fallback at
\* most once; the fallback is invoked only after the remote call of that message has
\* failed by its timeout or by an error of the remote service, never after it succeeded
\* and never before it; a failed remote call is not retried
C14_FallbackOnlyAfterFailure ==
    /\ [](\A i \in TaskIds : FallbackAfterFailure(tasks[i]))
    /\ [](call.fn = "summarize" /\ call.done /\ call.ret.fallback # "none" =>
              call.arg.remote.kind \in {"timeout", "error"})
    /\ [][\A i \in TaskIds : NoSecondCall(i)]_vars

\* C14: the remote call of a question failed with an error of the service, the local
\* fallback ran after it, and its answer was sent
C14_Witness ==
    \E i \in TaskIds :
        LET t == tasks[i]
        IN  /\ t.handler = "handle_question" /\ t.pc = "ret"
            /\ t.remote = "error" /\ t.fallback = "ok"
            /\ LastReply(t).kind = "answer"
            /\ LastReply(t).dyn = t.fallback_val

\* the kinds of the replies of a handler, in the order they were sent
KindsInOrder(t) == [k \in 1..Len(t.replies) |-> t.replies[k].kind]

\* the transcript file of the video of the handler
TranscriptFile(t) == <<"t","r","a","n","s","c","r","i","p","t","_">> \o t.vid \o <<".","t","x","t">>

\* what a handle_video has done so far is a start of: status reply, file written, summary
\* obtained, context stored, summary reply, document reply, prompt; or it ended in an
\* error reply after the status reply
VideoEffectsInOrder(t) ==
    (alive(t) /\ t.handler = "handle_video") =>
        /\ KindsInOrder(t) \in
              {<<"status">>, <<"status", "summary">>, <<"status", "summary", "document">>,
               <<"status", "summary", "document", "prompt">>,
               <<"status", "error">>, <<"status", "no_transcript">>}
        /\ t.remote # "none" => (t.write = "ok" /\ TranscriptFile(t) \in DOMAIN files)
        /\ t.stored <=> "summary" \in ReplyKinds(t)
        /\ t.stored =>
              /\ t.remote = "ok" \/ t.fallback = "ok"
              /\ RemoteOver(t)
              /\ t.chat \in DOMAIN chat_context
              /\ t.replies[2].dyn = t.summary
        /\ Len(t.replies) >= 3 => t.replies[3].file = TranscriptFile(t)
        /\ Len(t.replies) = 4 =>
              /\ t.replies[4].text = <<"{speech}", " ">> \o <<"N","o","w"," ","a","s","k"," ","m","e"," ","q","u","e","s","t","i","o","n","s"," ","a","b","o","u","t"," ","t","h","e"," ","v","i","d","e","o","!">>
              /\ t.stored /\ t.pc = "ret"

\* the file is written while nothing but the status reply was sent and before the remote
\* call, and the context is stored in the step that sends the summary reply
VideoStepInOrder(i) ==
    (alive(tasks[i]) /\ tasks[i].handler = "handle_video" /\ tasks[i]' # tasks[i]) =>
        /\ files' # files =>
              /\ tasks[i].pc = "v_status" /\ tasks[i].remote = "none"
              /\ tasks[i]'.replies = tasks[i].replies
        /\ chat_context' # chat_context =>
              /\ tasks[i].pc = "v_remote" /\ ~tasks[i].stored /\ tasks[i]'.stored
              /\ Len(tasks[i]'.replies) = 2
              /\ files' = files

\* C15: handle_video has its effects in the order status reply, transcript file, summary,
\* chat_context, summary reply, document reply, prompt; the prompt is sent only after a
\* context was stored for the conversation and the summary and the document were sent;
\* chat_context is written only when a summary was obtained from the remote tier or
\* from the fallback
C15_VideoEffectsInOrder ==
    /\ [](\A i \in TaskIds : VideoEffectsInOrder(tasks[i]))
    /\ [][\A i \in TaskIds : VideoStepInOrder(i)]_vars

\* C15: a handle_video sent its four replies in order, with the file written and the
\* context of the conversation stored
C15_Witness ==
    \E i \in TaskIds :
        LET t == tasks[i]
        IN  /\ t.handler = "handle_video" /\ t.pc = "ret"
            /\ KindsInOrder(t) = <<"status", "summary", "document", "prompt">>
            /\ TranscriptFile(t) \in DOMAIN files
            /\ t.stored
            /\ t.chat \in DOMAIN chat_context
            /\ chat_context[t.chat] = t.context_text
            /\ t.context_text # <<>>

\* the context of conversation c is not the same after the step as before it
ContextChanged(c) ==
    \/ (c \in DOMAIN chat_context) # (c \in DOMAIN chat_context')
    \/ c \in DOMAIN chat_context /\ c \in DOMAIN chat_context' /\ chat_context'[c] # chat_context[c]

\* the step is the store step of a handle_video for a message of conversation c
StoreStepFor(c) ==
    \E i \in TaskIds :
        /\ tasks[i].handler = "handle_video" /\ tasks[i].chat = c
        /\ tasks[i].pc = "v_remote" /\ ~tasks[i].stored
        /\ tasks[i]'.stored /\ tasks[i]'.failed = "none"
        /\ c \in DOMAIN chat_context'
        /\ chat_context'[c] = tasks[i].context_text

\* the step of a handler that is not a handle_video, or that ends in an error reply
OtherOrFailingStep(i) ==
    /\ tasks[i]' # tasks[i]
    /\ alive(tasks[i]')
    /\ tasks[i]'.handler # "handle_video" \/ tasks[i]'.failed # "none"

\* C16: the context of a conversation changes only in the store step of a handle_video for
\* a message of that conversation; cmd_start, cmd_transcript, handle_question and every
\* handler run that fails leave chat_context as it is; an entry is never deleted
C16_ContextChangesOnlyByStore ==
    [][/\ \A c \in Chats : ContextChanged(c) => StoreStepFor(c)
       /\ DOMAIN chat_context \subseteq DOMAIN chat_context'
       /\ DOMAIN chat_context' \subseteq Chats
       /\ \A i \in TaskIds : OtherOrFailingStep(i) => chat_context' = chat_context]_vars

\* C16: a handle_video stored the context of its conversation, and the non-empty context
\* of the other conversation is what it was when the message arrived
C16_Witness ==
    \E i \in TaskIds : \E c \in Chats :
        LET t == tasks[i]
        IN  /\ t.handler = "handle_video" /\ t.stored
            /\ c # t.chat
            /\ c \in DOMAIN t.before /\ t.before[c] # <<>>
            /\ c \in DOMAIN chat_context /\ chat_context[c] = t.before[c]
            /\ t.chat \in DOMAIN chat_context
            /\ t.chat \notin DOMAIN t.before

====
